---- MODULE Spec2Model ----
\* A model of abr-geocoder's download fabric (DownloadTransform), of the
\* Tokyo-23-ward town stage (Tokyo23TownTranform), of the ingest of
\* geocodingAction.start (convertToQuery), of the JSON and CSV formatters
\* (JsonTransform, CsvTransform) and of the init and start functions of
\* downloadDataset and geocodingAction, translated from the sources.
EXTENDS Integers, Sequences, FiniteSets, TLC

\* ------------------------------------------------------------------ bounds
\* Number of DownloadRequest items the upstream may write.
MaxRequests == 3
\* Largest value of the constructor parameter maxTasksPerWorker that is tried.
MaxTasksPerWorker == 2
\* Total number of attempts the worker lets fail (keeps `retry` finite).
MaxFailures == 5

\* Number of rows of the tokyo23towns dictionary.
MaxTowns == 3
\* Number of Query records the upstream hands to the stage, over all batches.
MaxQueries == 2
\* Length to which the address texts of incoming queries are cut.
MaxAddrLen == 6
\* Lines that reach convertToQuery.
MaxLines == 3
\* Records written to JsonTransform.
MaxRecords == 3
\* Records written to CsvTransform.
MaxRows == 3
\* Calls of init and initForTest, and calls of downloadDataset.start.
MaxInitCalls == 3
MaxStartCalls == 2

\* --------------------------------------------------------------- constants
\* `while (retry < 5)`
RetryLimit == 5
\* A pool built with two worker threads.
maxConcurrency_two == 1 + 1

\* `maxConcurrency: 1` : the downloader pool has a single worker thread.
maxConcurrency == 1

VARIABLES
  \* DownloadTransform
  receivedFinal,      \* private receivedFinal: boolean
  runningTasks,       \* private runningTasks
  maxTasksPerWorker,  \* constructor parameter
  pc,                 \* position of each _write invocation
  retry,              \* `let retry` of each _write invocation
  useCache,           \* params.useCache of each request
  acked,              \* the write callback of the request has been called
  runLog,             \* useCache flag of every downloader.run(params) call
  fails,              \* number of rejected downloader.run calls per request
  pushed,             \* what this.push() handed to the readable side
  closeState,         \* "open", "closing" (close() awaiting), "closed"
  \* Tokyo23TownTranform
  fuzzy,              \* constructor parameter fuzzy (NoFuzzy: undefined)
  logger,             \* whether the constructor parameter logger is defined
  tokyo23towns,       \* constructor parameter tokyo23towns
  initialized,        \* private initialized: boolean
  tokyo23TownTrie,    \* the <<key, value>> entries appended to the trie
  immediate,          \* the setImmediate callback is still to run
  source,             \* the Query records the upstream has yet to hand over
  tpc,                \* position of the _transform call
  queries,            \* the batch of the latest _transform call
  results,            \* what the latest callback(null, results) handed on
  origin,             \* for each element of results, the index of its query
  findLog,            \* what each tokyo23TownTrie.find call found built
  arrivedEarly,       \* the latest _transform call had to wait for the trie
  \* convertToQuery
  lines,              \* the lines written to convertToQuery so far
  ingested,           \* what its callbacks handed on
  \* JsonTransform
  debug,              \* options.debug
  buffer,             \* private buffer: string
  lineNum,            \* private lineNum: number
  written,            \* the records written to the transform so far
  emitted,            \* the chunks the transform has put out, in order
  ended,              \* _final has run
  flowing,            \* the readable side is flowing (not paused)
  readableBuffer,     \* the chunks push() put into the readable buffer
  observed,           \* the chunks the 'data' listener has got, in order
  \* CsvTransform
  columns,            \* options.columns
  skipHeader,         \* options.skipHeader
  rows,               \* private readonly rows: string[]
  csvWritten,         \* the records written to CsvTransform so far
  csvEmitted,         \* the chunks its callbacks handed on, in order
  csvEnded,           \* the upstream has ended
  \* downloadDataset and geocodingAction
  dsInitialized,      \* downloadDataset: let initialized
  gaInitialized,      \* geocodingAction: let initialized
  setups,             \* the setupContainer calls so far and how far each got
  alreadyInitialized, \* init calls that threw 'Already initialized'
  startCalls,         \* downloadDataset.start calls so far
  startPc,            \* position of the latest downloadDataset.start call
  setupAtStart,       \* state of downloadDataset's container setup when that call began
  updateAvailable,    \* what downloader.updateCheck() reported to that call
  steps,              \* what that call has begun and completed, in order
  rejection           \* what that call threw or rejected with

dlVars == <<receivedFinal, runningTasks, maxTasksPerWorker, pc, retry, useCache,
            acked, runLog, fails, pushed, closeState>>

tkVars == <<fuzzy, logger, tokyo23towns, initialized, tokyo23TownTrie, immediate,
            source, tpc, queries, results, origin, findLog, arrivedEarly>>

igVars == <<lines, ingested>>

jsVars == <<debug, buffer, lineNum, written, emitted, ended, flowing,
            readableBuffer, observed>>

cvVars == <<columns, skipHeader, rows, csvWritten, csvEmitted, csvEnded>>

acVars == <<dsInitialized, gaInitialized, setups, alreadyInitialized, startCalls, startPc, setupAtStart, updateAvailable, steps, rejection>>

vars == <<dlVars, tkVars, igVars, jsVars, cvVars, acVars>>

\* What a step of one component leaves alone.
exceptDownload == <<tkVars, igVars, jsVars, cvVars, acVars>>
exceptTokyo23 == <<dlVars, igVars, jsVars, cvVars, acVars>>
exceptIngest == <<dlVars, tkVars, jsVars, cvVars, acVars>>
exceptJson == <<dlVars, tkVars, igVars, cvVars, acVars>>
exceptCsv == <<dlVars, tkVars, igVars, jsVars, acVars>>
exceptAction == <<dlVars, tkVars, igVars, jsVars, cvVars>>

\* `fuzzy: undefined`
NoFuzzy == "undefined"

\* The stage that a specification leaves out is never constructed: its
\* variables keep these values.
DownloadUnused ==
  /\ receivedFinal = FALSE
  /\ runningTasks = 0
  /\ maxTasksPerWorker = 1
  /\ pc = <<>>
  /\ retry = <<>>
  /\ useCache = <<>>
  /\ acked = <<>>
  /\ runLog = <<>>
  /\ fails = <<>>
  /\ pushed = <<>>
  /\ closeState = "open"

Tokyo23Unused ==
  /\ fuzzy = NoFuzzy
  /\ logger = FALSE
  /\ tokyo23towns = <<>>
  /\ initialized = FALSE
  /\ tokyo23TownTrie = <<>>
  /\ immediate = FALSE
  /\ source = <<>>
  /\ tpc = "idle"
  /\ queries = <<>>
  /\ results = <<>>
  /\ origin = <<>>
  /\ findLog = {}
  /\ arrivedEarly = FALSE

IngestUnused ==
  /\ lines = <<>>
  /\ ingested = <<>>

JsonUnused ==
  /\ debug = FALSE
  /\ buffer = <<>>
  /\ lineNum = 0
  /\ written = <<>>
  /\ emitted = <<>>
  /\ ended = FALSE
  /\ flowing = FALSE
  /\ readableBuffer = <<>>
  /\ observed = <<>>

CsvUnused ==
  /\ columns = <<>>
  /\ skipHeader = FALSE
  /\ rows = <<>>
  /\ csvWritten = <<>>
  /\ csvEmitted = <<>>
  /\ csvEnded = FALSE

ActionUnused ==
  /\ dsInitialized = FALSE
  /\ gaInitialized = FALSE
  /\ setups = <<>>
  /\ alreadyInitialized = 0
  /\ startCalls = 0
  /\ startPc = "none"
  /\ setupAtStart = "none"
  /\ updateAvailable = "unknown"
  /\ steps = <<>>
  /\ rejection = [error |-> "none"]

Requests == 1..MaxRequests

\* push(null)
EOS == [req |-> 0, kind |-> "null"]

\* The two kinds of value downloader.run resolves with.
ResultKinds == {"ok", "err"}

Record(r, kind) == [req |-> r, kind |-> kind]

RECURSIVE SumFails(_, _)
SumFails(f, S) ==
  IF S = {} THEN 0
  ELSE LET r == CHOOSE x \in S : TRUE IN f[r] + SumFails(f, S \ {r})

\* ------------------------------------------------------ WorkerThreadPool
\* Tasks handed to downloader.run that wait for a free slot / are in flight.
Queued == {r \in Requests : pc[r] = "queued"}
InFlight == {r \in Requests : pc[r] = "running"}

\* One worker per unit of maxConcurrency, maxTasksPerWorker tasks on each.
PoolCapacity == maxConcurrency * maxTasksPerWorker

\* ------------------------------------------------------ DownloadTransform
InitDownload ==
  /\ receivedFinal = FALSE
  /\ runningTasks = 0
  /\ maxTasksPerWorker \in 1..MaxTasksPerWorker
  /\ pc = [r \in Requests |-> "idle"]
  /\ retry = [r \in Requests |-> 0]
  /\ useCache = [r \in Requests |-> FALSE]
  /\ acked = [r \in Requests |-> FALSE]
  /\ runLog = [r \in Requests |-> <<>>]
  /\ fails = [r \in Requests |-> 0]
  /\ pushed = <<>>
  /\ closeState = "open"

\* params.useCache = true;
FirstUseCache == TRUE

\* A retry that leaves the cache on.
RetryUseCache_kept == TRUE

\* params.useCache = false;
RetryUseCache == FALSE

\* A push that keeps the records in the order of their requests.
Push_inRequestOrder(q, x) ==
  LET before == SelectSeq(q, LAMBDA y : y.req <= x.req)
      after == SelectSeq(q, LAMBDA y : y.req > x.req)
  IN before \o <<x>> \o after

\* this.push(x)
Push(q, x) == Append(q, x)

\* An end that is pushed whenever no task is running, final or not.
PushEnd_ignoresFinal(q, running, final) ==
  IF running = 0 THEN Push(q, EOS) ELSE q

\* if (this.runningTasks === 0 && this.receivedFinal) this.push(null);
PushEnd(q, running, final) ==
  IF running = 0 /\ final THEN Push(q, EOS) ELSE q

\* A _write that leaves the callback to the end of the task.
_write_noAck(r) ==
  /\ pc[r] = "idle"
  /\ ~receivedFinal
  /\ \A q \in Requests : q < r => acked[q]
  /\ runningTasks' = runningTasks + 1
  /\ useCache' = [useCache EXCEPT ![r] = FirstUseCache]
  /\ retry' = [retry EXCEPT ![r] = 0]
  /\ runLog' = [runLog EXCEPT ![r] = Append(@, useCache'[r])]
  /\ pc' = [pc EXCEPT ![r] = "queued"]
  /\ UNCHANGED <<receivedFinal, maxTasksPerWorker, acked, fails, pushed, closeState>>
  /\ UNCHANGED exceptDownload

\* _write up to its first await: count the task, acknowledge the write, turn
\* the cache on and hand the request to the pool.  The stream calls _write for
\* one chunk at a time, each after the callback of the one before, and never
\* after the writable side has ended.
_write(r) ==
  /\ pc[r] = "idle"
  /\ ~receivedFinal
  /\ \A q \in Requests : q < r => acked[q]
  /\ runningTasks' = runningTasks + 1
  /\ acked' = [acked EXCEPT ![r] = TRUE]
  /\ useCache' = [useCache EXCEPT ![r] = FirstUseCache]
  /\ retry' = [retry EXCEPT ![r] = 0]
  /\ runLog' = [runLog EXCEPT ![r] = Append(@, useCache'[r])]
  /\ pc' = [pc EXCEPT ![r] = "queued"]
  /\ UNCHANGED <<receivedFinal, maxTasksPerWorker, fails, pushed, closeState>>
  /\ UNCHANGED exceptDownload

\* The pool starts a waiting task when the worker has a free slot.
PoolStart(r) ==
  /\ pc[r] = "queued"
  /\ closeState # "closed"
  /\ Cardinality(InFlight) < PoolCapacity
  /\ pc' = [pc EXCEPT ![r] = "running"]
  /\ UNCHANGED <<receivedFinal, runningTasks, maxTasksPerWorker, retry, useCache,
                 acked, runLog, fails, pushed, closeState>>
  /\ UNCHANGED exceptDownload

\* `await this.downloader.run(params)` resolves, with a payload or with a
\* DownloadProcessError: the task is counted out, the result pushed, and the
\* end pushed when this was the last task after the upstream's final.
RunResolved(r, kind) ==
  /\ pc[r] = "running"
  /\ runningTasks' = runningTasks - 1
  /\ pushed' = PushEnd(Push(pushed, Record(r, kind)), runningTasks', receivedFinal)
  /\ pc' = [pc EXCEPT ![r] = "done"]
  /\ UNCHANGED <<receivedFinal, maxTasksPerWorker, retry, useCache, acked,
                 runLog, fails, closeState>>
  /\ UNCHANGED exceptDownload

\* retry--;
RetryStep(n) == n - 1

\* `await this.downloader.run(params)` rejects: the catch block steps the
\* retry counter and starts the delay.
RunRejected(r) ==
  /\ pc[r] = "running"
  /\ SumFails(fails, Requests) < MaxFailures
  /\ fails' = [fails EXCEPT ![r] = @ + 1]
  /\ retry' = [retry EXCEPT ![r] = RetryStep(@)]
  /\ pc' = [pc EXCEPT ![r] = "sleeping"]
  /\ UNCHANGED <<receivedFinal, runningTasks, maxTasksPerWorker, useCache, acked,
                 runLog, pushed, closeState>>
  /\ UNCHANGED exceptDownload

\* The delay ends: the cache is turned off and `while (retry < 5)` decides
\* between another downloader.run and falling out of the loop, where _write
\* returns without a push and without counting the task out.
RetryWake(r) ==
  /\ pc[r] = "sleeping"
  /\ useCache' = [useCache EXCEPT ![r] = RetryUseCache]
  /\ IF retry[r] < RetryLimit
       THEN /\ runLog' = [runLog EXCEPT ![r] = Append(@, useCache'[r])]
            /\ pc' = [pc EXCEPT ![r] = "queued"]
       ELSE /\ runLog' = runLog
            /\ pc' = [pc EXCEPT ![r] = "exhausted"]
  /\ UNCHANGED <<receivedFinal, runningTasks, maxTasksPerWorker, retry, acked,
                 fails, pushed, closeState>>
  /\ UNCHANGED exceptDownload

\* _final: called once, after every write has been acknowledged.
_final ==
  /\ ~receivedFinal
  /\ \A r \in Requests : pc[r] # "idle" => acked[r]
  /\ receivedFinal' = TRUE
  /\ UNCHANGED <<runningTasks, maxTasksPerWorker, pc, retry, useCache, acked,
                 runLog, fails, pushed, closeState>>
  /\ UNCHANGED exceptDownload

\* close() is called: it awaits downloader.close().
close ==
  /\ closeState = "open"
  /\ closeState' = "closing"
  /\ UNCHANGED <<receivedFinal, runningTasks, maxTasksPerWorker, pc, retry,
                 useCache, acked, runLog, fails, pushed>>
  /\ UNCHANGED exceptDownload

\* downloader.close() settles: the pool holds no task any more and the worker
\* is shut down; close() returns.
closeDone ==
  /\ closeState = "closing"
  /\ Queued = {} /\ InFlight = {}
  /\ closeState' = "closed"
  /\ UNCHANGED <<receivedFinal, runningTasks, maxTasksPerWorker, pc, retry,
                 useCache, acked, runLog, fails, pushed>>
  /\ UNCHANGED exceptDownload

NextDownload ==
  \/ \E r \in Requests : _write(r)
  \/ \E r \in Requests : PoolStart(r)
  \/ \E r \in Requests, kind \in ResultKinds : RunResolved(r, kind)
  \/ \E r \in Requests : RunRejected(r)
  \/ \E r \in Requests : RetryWake(r)
  \/ _final
  \/ close
  \/ closeDone

\* The download fabric alone.
Init == InitDownload /\ Tokyo23Unused /\ IngestUnused /\ JsonUnused /\ ActionUnused /\ CsvUnused

Spec == Init /\ [][NextDownload]_vars

\* ------------------------------------------------------------ properties
Pending == {r \in Requests : pc[r] \in {"queued", "running", "sleeping"}}

HasRecord(r) == \E i \in 1..Len(pushed) : pushed[i].req = r

RecordCount(r) == Cardinality({i \in 1..Len(pushed) : pushed[i].req = r})

SentinelPushed == \E i \in 1..Len(pushed) : pushed[i] = EOS

\* C1: downloader.run is called at most 5 times for a request, whatever the
\* worker's failures.
C1_AtMostFiveRuns == \A r \in Requests : Len(runLog[r]) <= 5

\* C2: a request whose 5 attempts have failed has, once its last delay is over,
\* its error downstream as a DownloadProcessError record, and no request has
\* more than one record.
C2_ExhaustionSurfacesError ==
  \A r \in Requests :
    /\ (fails[r] >= 5 /\ pc[r] # "sleeping") =>
         \E i \in 1..Len(pushed) : pushed[i] = Record(r, "err")
    /\ RecordCount(r) <= 1

\* C3: the terminal sentinel has been emitted if and only if the upstream final
\* has been received and runningTasks is 0.
C3_SentinelIff == SentinelPushed <=> (receivedFinal /\ runningTasks = 0)

\* C4: a request is acknowledged to the upstream while its task is still
\* pending, and its record is downstream only once its task has completed.
C4_AckBeforePushAfter ==
  \A r \in Requests :
    /\ pc[r] # "idle" => acked[r]
    /\ HasRecord(r) => pc[r] = "done"

\* Two requests accepted and acknowledged, none with a record downstream.
C4_Witness ==
  /\ Cardinality({r \in Pending : acked[r]}) >= 2
  /\ pushed = <<>>

\* C5: the first downloader.run of a request has useCache = true and every
\* later one has useCache = false.
C5_CacheOnlyFirst ==
  \A r \in Requests : \A i \in 1..Len(runLog[r]) : runLog[r][i] = (i = 1)

\* A request on its second retry.
C5_Witness == \E r \in Requests : Len(runLog[r]) >= 3

\* C6: never more than maxTasksPerWorker requests are in flight on the worker.
C6_InFlightBounded == Cardinality(InFlight) <= maxTasksPerWorker

\* A request waits in the pool while maxTasksPerWorker others are in flight.
C6_Witness == Cardinality(InFlight) = maxTasksPerWorker /\ Queued # {}

\* C7: close() completes only when every accepted request has terminated.
C7_CloseAfterAllTasks ==
  [][(closeState = "closing" /\ closeState' = "closed") => Pending = {}]_vars

\* C8: the record of a request is pushed, behind everything pushed before, in
\* the step in which its task completes.
C8_CompletionOrder ==
  [][\A r \in Requests :
       (pc[r] # "done" /\ pc'[r] = "done") =>
         /\ Len(pushed') > Len(pushed)
         /\ SubSeq(pushed', 1, Len(pushed)) = pushed
         /\ pushed'[Len(pushed) + 1].req = r]_vars

\* The second request's record is the first one downstream while the first
\* request is still pending.
C8_Witness ==
  /\ Len(pushed) >= 1
  /\ pushed[1].req = 2
  /\ 1 \in Pending

\* ------------------------------------------------- Tokyo23TownTranform
\* Address text is a sequence of characters; each character is written as a
\* short name: "mi" 港, "si" 芝, "ku" 区, "KU" 區 (the old form of 区), "k1" 一,
\* "k2" 二, "k10" 十, "ki" 北, "jo" 条, "cho" 丁, "me" 目, "ban" 番, "gou" 号, "machi" 町, "chi" 地,
\* "no" の, "KA" カ, "ka" か, "-" the dash, "?" the wildcard, digits as they are.
DASH == "-"

Digits == {"0", "1", "2", "3", "4", "5", "6", "7", "8", "9"}

\* [番号町地丁目]
SuffixChars == {"ban", "gou", "machi", "chi", "cho", "me"}

\* Last index of the longest run of characters of S that starts at s[i]
\* (i - 1 when s[i] is not in S).
RECURSIVE RunEnd(_, _, _)
RunEnd(s, i, S) ==
  IF i <= Len(s) /\ s[i] \in S THEN RunEnd(s, i + 1, S) ELSE i - 1

\* replaceAll(RegExpEx.create(`(\\d+)${DASH}?[番号町地丁目]+の?`, 'g'), `$1${DASH}`)
\* applied from position i on.
RECURSIVE SuffixStripFrom(_, _)
SuffixStripFrom(s, i) ==
  IF i > Len(s) THEN <<>>
  ELSE IF s[i] \notin Digits THEN <<s[i]>> \o SuffixStripFrom(s, i + 1)
  ELSE
    LET dEnd == RunEnd(s, i, Digits)
        sBegin == IF dEnd + 1 <= Len(s) /\ s[dEnd + 1] = DASH
                    THEN dEnd + 2 ELSE dEnd + 1
        sEnd == RunEnd(s, sBegin, SuffixChars)
        next == IF sEnd + 1 <= Len(s) /\ s[sEnd + 1] = "no"
                  THEN sEnd + 2 ELSE sEnd + 1
    IN IF sEnd >= sBegin
         THEN SubSeq(s, i, dEnd) \o <<DASH>> \o SuffixStripFrom(s, next)
         ELSE <<s[i]>> \o SuffixStripFrom(s, i + 1)

\* The element of a set of one element.  {F(x) : x \in {e}} is F of the value
\* of e, with e evaluated once.
Only(S) == CHOOSE x \in S : TRUE

SuffixStrip(s) == Only({SuffixStripFrom(t, 1) : t \in {s}})

\* toHiragana / toHiraganaForCharNode: katakana to hiragana.
toHiragana(s) == [i \in 1..Len(s) |-> IF s[i] = "KA" THEN "ka" ELSE s[i]]

\* Kanji numerals: 一, 二, 十.
KanjiNumerals == {"k1", "k2", "k10"}

KanjiValue(c) == CASE c = "k1" -> 1 [] c = "k2" -> 2 [] c = "k10" -> 10

\* The number a run s[i..j] of kanji numerals stands for, by positional
\* decomposition: 二十一 is 21, 十 is 10, 一二 is 12.
RECURSIVE RunValue(_, _, _, _, _)
RunValue(s, i, j, total, cur) ==
  IF i > j THEN total + cur
  ELSE IF s[i] = "k10"
    THEN RunValue(s, i + 1, j, total + (IF cur = 0 THEN 1 ELSE cur) * 10, 0)
  ELSE RunValue(s, i + 1, j, total, cur * 10 + KanjiValue(s[i]))

DigitChar(d) == <<"0", "1", "2", "3", "4", "5", "6", "7", "8", "9">>[d + 1]

\* The ASCII digits of n.
RECURSIVE DigitsOf(_)
DigitsOf(n) ==
  IF n < 10 THEN <<DigitChar(n)>>
  ELSE DigitsOf(n \div 10) \o <<DigitChar(n % 10)>>

RECURSIVE kan2numFrom(_, _)
kan2numFrom(s, i) ==
  IF i > Len(s) THEN <<>>
  ELSE IF s[i] \notin KanjiNumerals THEN <<s[i]>> \o kan2numFrom(s, i + 1)
  ELSE LET j == RunEnd(s, i, KanjiNumerals)
       IN DigitsOf(RunValue(s, i, j, 0, 0)) \o kan2numFrom(s, j + 1)

\* kan2num / kan2numForCharNode: every run of kanji numerals to the ASCII
\* digits of its number.
kan2num(s) == Only({kan2numFrom(t, 1) : t \in {s}})

\* jisKanji / jisKanjiForCharNode: old forms to new forms.
jisKanji(s) == [i \in 1..Len(s) |-> IF s[i] = "KU" THEN "ku" ELSE s[i]]

\* normalizeStr: hiragana, kan2num, jisKanji, then the suffix strip.
normalizeStr(address) == SuffixStrip(jisKanji(kan2num(toHiragana(address))))

\* normalizeCharNode: the suffix strip, then hiragana, kan2num, jisKanji.
normalizeCharNode(address) == jisKanji(kan2num(toHiragana(SuffixStrip(address))))

\* ---- TrieAddressFinder
\* Number of characters of target that key covers from (i, j) on, or -1 when
\* key is not a prefix of target.  A character of target that is the wildcard
\* stands for any character of key, once in a match.
RECURSIVE MatchFrom(_, _, _, _, _)
MatchFrom(key, target, fz, i, used) ==
  IF i > Len(key) THEN Len(key)
  ELSE IF i > Len(target) THEN -1
  ELSE IF target[i] = key[i] THEN MatchFrom(key, target, fz, i + 1, used)
  ELSE IF fz # NoFuzzy /\ target[i] = fz /\ ~used
    THEN MatchFrom(key, target, fz, i + 1, TRUE)
  ELSE -1

MatchDepth(key, target, fz) == MatchFrom(key, target, fz, 1, FALSE)

\* The depth every entry of trie from the i-th on matches target with.
RECURSIVE MatchDepths(_, _, _, _)
MatchDepths(trie, target, fz, i) ==
  IF i > Len(trie) THEN <<>>
  ELSE <<[info |-> trie[i].value, depth |-> MatchDepth(trie[i].key, target, fz)]>>
         \o MatchDepths(trie, target, fz, i + 1)

\* The entries that matched with depth d or less, deepest first and in
\* insertion order within a depth, as {info, depth, unmatched}.
RECURSIVE FindFrom(_, _, _)
FindFrom(matched, target, d) ==
  IF d < 1 THEN <<>>
  ELSE LET hits == SelectSeq(matched, LAMBDA e : e.depth = d)
           unmatched == SubSeq(target, d + 1, Len(target))
       IN [i \in 1..Len(hits) |->
             [info |-> hits[i].info, depth |-> d, unmatched |-> unmatched]]
            \o FindFrom(matched, target, d - 1)

\* find({target, extraChallenges, partialMatches: true}): every terminal met
\* along the walk, deepest first.  A virtual suffix character (extraChallenges)
\* at a terminal counts neither in depth nor in unmatched.
find(trie, target, fz) ==
  FindFrom(MatchDepths(trie, target, fz, 1), target, Len(target))

\* ---- MatchLevel (ordinals of section 3 of the specification)
UNKNOWN == 0
PREFECTURE == 1
CITY == 2
MACHIAZA == 3
MACHIAZA_DETAIL == 4

\* ---- TownMatchingInfo
Null == "null"

\* A search result without info.
NoInfo == [undefined |-> TRUE]

InfoFields ==
  {"pref_key", "city_key", "town_key", "rsdt_addr_flg", "rep_lat", "rep_lon",
   "koaza", "pref", "county", "city", "ward", "lg_code", "oaza_cho",
   "machiaza_id", "chome"}

TownIn(city_key, city, lg_code, key, town_key, oaza_cho, machiaza_id, chome) ==
  [key |-> key, pref_key |-> "tokyo", city_key |-> city_key, town_key |-> town_key,
   rsdt_addr_flg |-> "1", rep_lat |-> "35.65", rep_lon |-> "139.75",
   koaza |-> Null, pref |-> "Tokyo-to", county |-> Null, city |-> city,
   ward |-> Null, lg_code |-> lg_code, oaza_cho |-> oaza_cho,
   machiaza_id |-> machiaza_id, chome |-> chome]

\* A row of 港区.
Town(key, town_key, oaza_cho, machiaza_id, chome) ==
  TownIn("minato", "Minato-ku", "131032", key, town_key, oaza_cho, machiaza_id, chome)

\* Rows of the town table of the 23 wards: 港区芝一丁目, 港区芝, 北区十条,
\* 港区カ.
AllTowns ==
  << Town(<<"mi", "ku", "si", "k1", "cho", "me">>, "shiba-1", "Shiba", "0015001", "1-chome"),
     Town(<<"mi", "ku", "si">>, "shiba", "Shiba", "0015000", Null),
     TownIn("kita", "Kita-ku", "131172",
            <<"ki", "ku", "k10", "jo">>, "jujo", "Jujo", "0020000", Null),
     Town(<<"mi", "ku", "KA">>, "ka", "Ka", "0016000", Null) >>

Min(a, b) == IF a <= b THEN a ELSE b

\* The dictionary the stage is built with: the first MaxTowns rows.
Dictionary == SubSeq(AllTowns, 1, Min(MaxTowns, Len(AllTowns)))

\* ---- Query
\* Address texts, cut to MaxAddrLen characters.
Text(t) == SubSeq(t, 1, Min(Len(t), MaxAddrLen))

\* What the earlier stages have resolved of a record.
Resolved == {"nothing", "tokyo", "osaka", "tokyo-minato", "tokyo-minato-shiba1"}

\* The characters the earlier stages have consumed: 東京都, 大阪府, 東京都港区,
\* 東京都港区芝1丁目.
Consumed(res) ==
  CASE res = "nothing" -> <<>>
    [] res = "tokyo" -> <<"tou", "kyou", "to">>
    [] res = "osaka" -> <<"oo", "saka", "fu">>
    [] res = "tokyo-minato" -> <<"tou", "kyou", "to", "mi", "ku">>
    [] res = "tokyo-minato-shiba1" ->
         <<"tou", "kyou", "to", "mi", "ku", "si", "1", "cho", "me">>

\* The record for `text` as it leaves the earlier stages.  An empty
\* tempAddress stands for `tempAddress: undefined`.
IncomingQuery(text, res) ==
  LET level == CASE res = "nothing" -> UNKNOWN
                 [] res \in {"tokyo", "osaka"} -> PREFECTURE
                 [] res = "tokyo-minato" -> CITY
                 [] res = "tokyo-minato-shiba1" -> MACHIAZA_DETAIL
      inCity == res \in {"tokyo-minato", "tokyo-minato-shiba1"}
      inTown == res = "tokyo-minato-shiba1"
  IN [input |-> Consumed(res) \o text,
      tempAddress |-> text,
      match_level |-> level,
      coordinate_level |-> level,
      matchedCnt |-> Len(Consumed(res)),
      pref_key |-> CASE res = "nothing" -> Null [] res = "osaka" -> "osaka"
                     [] OTHER -> "tokyo",
      city_key |-> IF inCity THEN "minato" ELSE Null,
      town_key |-> IF inTown THEN "shiba-1" ELSE Null,
      rsdt_addr_flg |-> IF inTown THEN "1" ELSE Null,
      rep_lat |-> IF res = "nothing" THEN Null ELSE "35.0",
      rep_lon |-> IF res = "nothing" THEN Null ELSE "135.0",
      koaza |-> Null,
      pref |-> CASE res = "nothing" -> Null [] res = "osaka" -> "Osaka-fu"
                 [] OTHER -> "Tokyo-to",
      county |-> Null,
      city |-> IF inCity THEN "Minato-ku" ELSE Null,
      ward |-> Null,
      lg_code |-> IF inCity THEN "131032" ELSE Null,
      oaza_cho |-> IF inTown THEN "Shiba" ELSE Null,
      machiaza_id |-> IF inTown THEN "0015001" ELSE Null,
      chome |-> IF inTown THEN "1-chome" ELSE Null]

\* The records that reach the stage: 港區芝一丁目 with nothing resolved;
\* 港区芝1丁目2 behind 東京都, behind 大阪府 and behind 東京都港区; 港区?1丁目カ
\* behind 東京都; 北区十条 with nothing resolved; 港区芝 behind 東京都港区芝1丁目;
\* and 東京都 with nothing left.
QueryInputs ==
  { IncomingQuery(Text(<<"mi", "KU", "si", "k1", "cho", "me">>), "nothing"),
    IncomingQuery(Text(<<"mi", "ku", "si", "1", "cho", "me", "2">>), "tokyo"),
    IncomingQuery(Text(<<"mi", "ku", "si", "1", "cho", "me", "2">>), "osaka"),
    IncomingQuery(Text(<<"mi", "ku", "si", "1", "cho", "me", "2">>), "tokyo-minato"),
    IncomingQuery(Text(<<"mi", "ku", "?", "1", "cho", "me", "KA">>), "tokyo"),
    IncomingQuery(Text(<<"ki", "ku", "k10", "jo">>), "nothing"),
    IncomingQuery(Text(<<"mi", "ku", "si">>), "tokyo-minato-shiba1"),
    IncomingQuery(<<>>, "tokyo") }

RECURSIVE SeqsUpTo(_, _)
SeqsUpTo(S, n) ==
  IF n = 0 THEN {<<>>}
  ELSE LET shorter == SeqsUpTo(S, n - 1)
       IN shorter \cup {Append(b, x) : b \in {c \in shorter : Len(c) = n - 1}, x \in S}

\* What the upstream may hand to the stage.
Sources == SeqsUpTo(QueryInputs, MaxQueries)

\* ---- constructor
\* The trie is empty and its build is deferred with setImmediate.
InitTokyo23 ==
  /\ fuzzy \in {NoFuzzy, "?"}
  /\ logger \in BOOLEAN
  /\ tokyo23towns = Dictionary
  /\ initialized = FALSE
  /\ tokyo23TownTrie = <<>>
  /\ immediate = TRUE
  /\ source \in Sources
  /\ tpc = "idle"
  /\ queries = <<>>
  /\ results = <<>>
  /\ origin = <<>>
  /\ findLog = {}
  /\ arrivedEarly = FALSE

\* The setImmediate callback: every town is appended under its normalized
\* key, then initialized is set.
buildTrie ==
  /\ immediate
  /\ immediate' = FALSE
  /\ tokyo23TownTrie' =
       tokyo23TownTrie \o
         [i \in 1..Len(tokyo23towns) |->
            [key |-> normalizeStr(tokyo23towns[i].key), value |-> tokyo23towns[i]]]
  /\ initialized' = TRUE
  /\ UNCHANGED <<fuzzy, logger, tokyo23towns, source, tpc, queries, results,
                 origin, findLog, arrivedEarly>>
  /\ UNCHANGED exceptTokyo23

\* ---- _transform
Skipped_never(query) == FALSE

\* if (!query.tempAddress || query.match_level.num >= MatchLevel.CITY.num)
Skipped(query) == query.tempAddress = <<>> \/ query.match_level >= CITY

\* this.tokyo23TownTrie.find({target: this.normalizeCharNode(query.tempAddress), ...})
SearchResults(query) ==
  find(tokyo23TownTrie, normalizeCharNode(query.tempAddress), fuzzy)

\* A copy that leaves tempAddress and match_level as they were.
Copy_unconsumed(query, searchResult) ==
  [f \in DOMAIN query |->
     CASE f \in {"pref_key", "city_key", "town_key", "rsdt_addr_flg", "rep_lat",
                 "rep_lon", "koaza", "pref", "county", "city", "ward", "lg_code",
                 "oaza_cho", "machiaza_id", "chome"} -> searchResult.info[f]
       [] f = "matchedCnt" -> query.matchedCnt + searchResult.depth
       [] OTHER -> query[f]]

\* A copy that raises coordinate_level and leaves match_level as it was.
Copy_coordinateOnly(query, searchResult) ==
  [f \in DOMAIN query |->
     CASE f \in {"pref_key", "city_key", "town_key", "rsdt_addr_flg", "rep_lat",
                 "rep_lon", "koaza", "pref", "county", "city", "ward", "lg_code",
                 "oaza_cho", "machiaza_id", "chome"} -> searchResult.info[f]
       [] f = "tempAddress" -> searchResult.unmatched
       [] f = "coordinate_level" -> MACHIAZA_DETAIL
       [] f = "matchedCnt" -> query.matchedCnt + searchResult.depth
       [] OTHER -> query[f]]

\* A copy that takes the town of the row and leaves pref_key and city_key as
\* they were.
Copy_townOnly(query, searchResult) ==
  [f \in DOMAIN query |->
     CASE f \in {"town_key", "rsdt_addr_flg", "rep_lat", "rep_lon", "koaza",
                 "oaza_cho", "machiaza_id", "chome"} -> searchResult.info[f]
       [] f = "tempAddress" -> searchResult.unmatched
       [] f \in {"match_level", "coordinate_level"} -> MACHIAZA_DETAIL
       [] f = "matchedCnt" -> query.matchedCnt + searchResult.depth
       [] OTHER -> query[f]]

\* query.copy({...}) for one search result.
Copy(query, searchResult) ==
  [f \in DOMAIN query |->
     CASE f \in InfoFields -> searchResult.info[f]
       [] f = "tempAddress" -> searchResult.unmatched
       [] f = "match_level" -> MACHIAZA_DETAIL
       [] f = "coordinate_level" -> MACHIAZA_DETAIL
       [] f = "matchedCnt" -> query.matchedCnt + searchResult.depth
       [] OTHER -> query[f]]

\* A forEach body that pushes the query as it is when a search result has no
\* info.
ForQuery_ignoresEmptyInfo(query) ==
  IF Skipped(query) THEN [pushed |-> <<query>>, throws |-> FALSE]
  ELSE Only({
         IF Len(searchResults) = 0 THEN [pushed |-> <<query>>, throws |-> FALSE]
         ELSE IF \E i \in 1..Len(searchResults) : searchResults[i].info = NoInfo
           THEN [pushed |-> <<query>>, throws |-> FALSE]
         ELSE [pushed |-> [i \in 1..Len(searchResults) |-> Copy(query, searchResults[i])],
               throws |-> FALSE]
         : searchResults \in {SearchResults(query)} })

\* The body of queries.forEach for one query: what it pushes to results, and
\* whether it throws `new Error('searchResult.info is empty')`.
ForQuery(query) ==
  IF Skipped(query) THEN [pushed |-> <<query>>, throws |-> FALSE]
  ELSE LET searchResults == SearchResults(query)
       IN IF Len(searchResults) = 0 THEN [pushed |-> <<query>>, throws |-> FALSE]
          ELSE IF \E i \in 1..Len(searchResults) : searchResults[i].info = NoInfo
            THEN [pushed |-> <<>>, throws |-> TRUE]
          ELSE [pushed |-> [i \in 1..Len(searchResults) |-> Copy(query, searchResults[i])],
                throws |-> FALSE]

\* results after the queries of batch from the n-th on, each with the index of
\* its query, and whether one of those queries threw.
RECURSIVE ForEachFrom(_, _)
ForEachFrom(batch, n) ==
  IF n > Len(batch) THEN [out |-> <<>>, throws |-> FALSE]
  ELSE LET one == ForQuery(batch[n])
           rest == ForEachFrom(batch, n + 1)
       IN [out |-> [i \in 1..Len(one.pushed) |-> [query |-> one.pushed[i], of |-> n]]
                     \o rest.out,
           throws |-> one.throws \/ rest.throws]

MustWait_never == FALSE

\* while (!this.initialized)
MustWait == ~initialized

\* _transform behind the barrier: the forEach over the batch, the logger
\* line and callback(null, results).  An error thrown in it (an empty info,
\* results[0] of an empty batch read for the logger) rejects the promise of
\* the async _transform and the callback is never called.  results is what
\* the callback of the current call has delivered, origin[i] the index in
\* queries of the record results[i] was made from.
Process(batch) ==
  LET forEach == ForEachFrom(batch, 1)
      out == forEach.out
  IN /\ findLog' =
          IF \E n \in 1..Len(batch) : ~Skipped(batch[n])
            THEN findLog \cup {[initialized |-> initialized,
                                appended |-> Len(tokyo23TownTrie)]}
            ELSE findLog
     /\ IF forEach.throws \/ (logger /\ Len(out) = 0)
          THEN /\ tpc' = "failed"
               /\ results' = <<>>
               /\ origin' = <<>>
          ELSE /\ tpc' = "idle"
               /\ results' = [i \in 1..Len(out) |-> out[i].query]
               /\ origin' = [i \in 1..Len(out) |-> out[i].of]

\* _transform is called with a batch, the next k records of the upstream; the
\* stream calls it for one batch at a time, each after the callback of the one
\* before.
_transform(k) ==
  /\ tpc = "idle"
  /\ queries' = SubSeq(source, 1, k)
  /\ source' = SubSeq(source, k + 1, Len(source))
  /\ arrivedEarly' = MustWait
  /\ IF MustWait
       THEN /\ tpc' = "waiting"
            /\ results' = <<>>
            /\ origin' = <<>>
            /\ UNCHANGED findLog
       ELSE Process(queries')
  /\ UNCHANGED <<fuzzy, logger, tokyo23towns, initialized, tokyo23TownTrie, immediate>>
  /\ UNCHANGED exceptTokyo23

\* `await timers.setTimeout(100)` is over and the trie is built: the waiting
\* _transform goes on.  (Before that the loop only sleeps again.)
pollTimer ==
  /\ tpc = "waiting"
  /\ ~MustWait
  /\ Process(queries)
  /\ UNCHANGED <<fuzzy, logger, tokyo23towns, initialized, tokyo23TownTrie, immediate,
                 source, queries, arrivedEarly>>
  /\ UNCHANGED exceptTokyo23

NextTokyo23 ==
  \/ buildTrie
  \/ \E k \in 0..Len(source) : _transform(k)
  \/ pollTimer

\* The Tokyo-23-ward stage alone.
InitStage == InitTokyo23 /\ DownloadUnused /\ IngestUnused /\ JsonUnused /\ ActionUnused /\ CsvUnused

SpecTokyo23 == InitStage /\ [][NextTokyo23]_vars

\* The step of pollTimer as tpc shows it: a call in the poll loop leaves the
\* loop, to call back or to fail.
LeavesPollLoop == tpc = "waiting" /\ ~MustWait /\ tpc' \in {"idle", "failed"}

\* The event loop runs the setImmediate callback, and the timer of the poll
\* loop fires.
SpecTokyo23Fair == SpecTokyo23 /\ WF_vars(buildTrie) /\ WF_tpc(LeavesPollLoop)

\* C9: find is only called on the trie once every row of tokyo23towns has been
\* appended and initialized is set, whatever the order of the deferred build
\* and the _transform calls; the trie is not appended to after initialized is
\* set; and a _transform call that had to wait goes on in the end.
C9_InitializationBarrier ==
  /\ [](\A s \in findLog : s.initialized /\ s.appended = Len(tokyo23towns))
  /\ [][initialized => tokyo23TownTrie' = tokyo23TownTrie]_vars
  /\ (tpc = "waiting") ~> (tpc # "waiting")

\* A call that arrived before the build has searched the full trie and called
\* back.
C9_Witness ==
  /\ arrivedEarly
  /\ tpc = "idle"
  /\ findLog # {}
  /\ Len(tokyo23TownTrie) >= 2

\* C10: a record that enters with the pref_key of a prefecture other than Tokyo
\* leaves with its pref_key, pref and match_level as they were.
C10_PinnedToTokyo ==
  \A i \in 1..Len(results) :
    LET query == queries[origin[i]]
    IN query.pref_key \notin {Null, "tokyo"} =>
         /\ results[i].pref_key = query.pref_key
         /\ results[i].pref = query.pref
         /\ results[i].match_level = query.match_level

\* C11: a record that enters with its ward already resolved (match_level CITY
\* or above, the level MACHIAZA_DETAIL the stage sets included) or with no
\* tempAddress left is in the output exactly once, equal to the input in every
\* field, and find is called only for a batch that holds some other record.
C11_ResolvedPassesUnchanged ==
  /\ [](tpc = "idle" =>
         \A n \in 1..Len(queries) :
           (queries[n].match_level >= CITY \/ queries[n].tempAddress = <<>>) =>
             /\ Cardinality({i \in 1..Len(results) : origin[i] = n}) = 1
             /\ \A i \in 1..Len(results) : origin[i] = n => results[i] = queries[n])
  /\ [][findLog' # findLog =>
          \E n \in 1..Len(queries') :
            queries'[n].match_level < CITY /\ queries'[n].tempAddress # <<>>]_vars

\* A record at MACHIAZA_DETAIL whose tempAddress is in the trie has gone
\* through with a batch that was called back.
C11_Witness ==
  /\ tpc = "idle"
  /\ initialized
  /\ \E n \in 1..Len(queries) :
       /\ queries[n].match_level = MACHIAZA_DETAIL
       /\ queries[n].tempAddress = <<"mi", "ku", "si">>
       /\ \E i \in 1..Len(results) : origin[i] = n
\* C12: with the trie as it is, the batch a call has handed on goes through the
\* stage a second time without an error and comes out as it went in: the same
\* records in the same order, equal in every field.
C12_Idempotent ==
  tpc = "idle" =>
    LET again == ForEachFrom(results, 1)
    IN /\ ~again.throws
       /\ [i \in 1..Len(again.out) |-> again.out[i].query] = results

\* The batch handed on holds two records made from one query by two rows of
\* the trie.
C12_Witness ==
  /\ tpc = "idle"
  /\ \E i, j \in 1..Len(results) :
       /\ i < j
       /\ origin[i] = origin[j]
       /\ results[i].match_level = MACHIAZA_DETAIL
       /\ queries[origin[i]].match_level < CITY
       /\ results[i].town_key # results[j].town_key
\* C13: every record the stage hands on has matchedCnt at most the number of
\* characters of its input (every record that comes in has).
C13_MatchedCntWithinInput ==
  \A i \in 1..Len(results) : results[i].matchedCnt <= Len(results[i].input)
\* C14: a record made from a row that has neither chome nor koaza is not at
\* match_level MACHIAZA_DETAIL.
C14_DetailOnlyWithChome ==
  \A i \in 1..Len(results) :
    (/\ results[i] # queries[origin[i]]
     /\ results[i].chome = Null
     /\ results[i].koaza = Null) => results[i].match_level # MACHIAZA_DETAIL
\* C15: every record the stage hands on has match_level at least its
\* coordinate_level (every record that comes in has) and at least the
\* match_level of the record it was made from.
C15_LevelsOrdered ==
  \A i \in 1..Len(results) :
    /\ results[i].match_level >= results[i].coordinate_level
    /\ results[i].match_level >= queries[origin[i]].match_level

\* A record has been raised from below CITY.
C15_Witness ==
  \E i \in 1..Len(results) :
    /\ queries[origin[i]].match_level < CITY
    /\ results[i].match_level > queries[origin[i]].match_level

\* C16: in every record the stage hands on, a town_key that is set comes with
\* a city_key that is set, and a city_key that is set with a pref_key that is
\* set (every record that comes in, and every row of tokyo23towns, is so).
C16_KeyChain ==
  \A i \in 1..Len(results) :
    /\ results[i].town_key # Null => results[i].city_key # Null
    /\ results[i].city_key # Null => results[i].pref_key # Null

\* A record that came in with no key set has left with a town_key.
C16_Witness ==
  \E i \in 1..Len(results) :
    /\ queries[origin[i]].pref_key = Null
    /\ queries[origin[i]].town_key = Null
    /\ results[i].town_key # Null
\* ---- a corrupt index
\* A terminal of the trie loses its info: find then returns a search result
\* without info for the keys that end there.  At most one terminal does.
corruptTerminal ==
  /\ initialized
  /\ \A i \in 1..Len(tokyo23TownTrie) : tokyo23TownTrie[i].value # NoInfo
  /\ \E i \in 1..Len(tokyo23TownTrie) :
       tokyo23TownTrie' = [tokyo23TownTrie EXCEPT ![i].value = NoInfo]
  /\ UNCHANGED <<fuzzy, logger, tokyo23towns, initialized, immediate, source, tpc,
                 queries, results, origin, findLog, arrivedEarly>>
  /\ UNCHANGED exceptTokyo23

NextTokyo23Corrupt == NextTokyo23 \/ corruptTerminal

\* The Tokyo-23-ward stage over a trie that may get corrupt.
SpecTokyo23Corrupt == InitStage /\ [][NextTokyo23Corrupt]_vars

\* C17: when find returns a search result without info for a record of the
\* batch, the call fails and hands on no batch; and after a call has failed the
\* stage takes no further batch and hands on nothing.
C17_EmptyInfoIsFatal ==
  /\ [][(/\ \/ (tpc = "idle" /\ source' # source /\ tpc' # "waiting")
             \/ (tpc = "waiting" /\ tpc' # "waiting")
          /\ \E n \in 1..Len(queries') :
               /\ queries'[n].tempAddress # <<>>
               /\ queries'[n].match_level < CITY
               /\ \E r \in {SearchResults(queries'[n])} :
                    \E i \in 1..Len(r) : r[i].info = NoInfo)
          => (tpc' = "failed" /\ results' = <<>>)]_vars
  /\ [][tpc = "failed" => UNCHANGED <<tpc, source, queries, results, origin>>]_vars

\* A call has failed on a search result without info: no logger is defined,
\* and a record of the batch reaches the corrupt terminal.
C17_Witness ==
  /\ tpc = "failed"
  /\ ~logger
  /\ \E n \in 1..Len(queries) :
       \E r \in {SearchResults(queries[n])} :
         \E i \in 1..Len(r) : r[i].info = NoInfo
\* C18: every batch the stage takes is answered by one batch (no call fails,
\* an empty batch included), and in the answer the records made from input
\* record i precede those made from input record j for i < j, and every
\* input record has a record made from it.
C18_OrderPreserved ==
  /\ tpc # "failed"
  /\ tpc = "idle" =>
       /\ \A i, j \in 1..Len(results) : i < j => origin[i] <= origin[j]
       /\ \A n \in 1..Len(queries) : \E i \in 1..Len(results) : origin[i] = n
\* ---- convertToQuery: the ingest transform of geocodingAction.start
\* Characters of a line and their UTF-8 bytes; "a_hira" is a three-byte
\* character.
encode(c) ==
  CASE c = "#" -> <<35>>
    [] c = "/" -> <<47>>
    [] c = "a" -> <<97>>
    [] c = " " -> <<32>>
    [] c = "a_hira" -> <<227, 129, 130>>

RECURSIVE encodeText(_)
encodeText(text) ==
  IF text = <<>> THEN <<>> ELSE encode(Head(text)) \o encodeText(Tail(text))

\* Buffer.toString(): UTF-8 decoding, from byte i on.  A byte that does not
\* begin a character decodes to U+FFFD.
RECURSIVE toStringFrom(_, _)
toStringFrom(line, i) ==
  IF i > Len(line) THEN <<>>
  ELSE IF line[i] = 35 THEN <<"#">> \o toStringFrom(line, i + 1)
  ELSE IF line[i] = 47 THEN <<"/">> \o toStringFrom(line, i + 1)
  ELSE IF line[i] = 97 THEN <<"a">> \o toStringFrom(line, i + 1)
  ELSE IF line[i] = 32 THEN <<" ">> \o toStringFrom(line, i + 1)
  ELSE IF /\ i + 2 <= Len(line)
          /\ SubSeq(line, i, i + 2) = <<227, 129, 130>>
    THEN <<"a_hira">> \o toStringFrom(line, i + 3)
  ELSE <<"U+FFFD">> \o toStringFrom(line, i + 1)

toString(line) == toStringFrom(line, 1)

\* String.prototype.startsWith
startsWith(str, searchString) ==
  /\ Len(str) >= Len(searchString)
  /\ SubSeq(str, 1, Len(searchString)) = searchString

\* A comment test that knows '#' only.
isComment_hashOnly(input) == startsWith(input, <<"#">>)

\* input.startsWith('#') || input.startsWith('//')
isComment(input) ==
  startsWith(input, <<"#">>) \/ startsWith(input, <<"/", "/">>)

\* Query.create(input): a Query that keeps the line as its input.
QueryCreate(input) == [input |-> input, match_level |-> UNKNOWN]

\* The lines the reader hands on: UTF-8 text, one address or comment each.
LineTexts ==
  { <<>>, <<"#">>, <<"#", "a">>, <<"/", "/", "a_hira">>, <<"/", "a">>,
    <<"a", "#">>, <<" ", "#">>, <<"a_hira", "/", "/">>, <<"a">> }

Lines == {encodeText(text) : text \in LineTexts}

InitIngest ==
  /\ lines = <<>>
  /\ ingested = <<>>
  /\ DownloadUnused
  /\ ActionUnused
  /\ CsvUnused
  /\ Tokyo23Unused
  /\ JsonUnused

\* transform(line, encoding, callback)
transform(line) ==
  /\ Len(lines) < MaxLines
  /\ lines' = Append(lines, line)
  /\ LET input == toString(line) IN
       IF isComment(input)
         THEN ingested' = ingested
         ELSE ingested' = Append(ingested, QueryCreate(input))
  /\ UNCHANGED exceptIngest

NextIngest == \E line \in Lines : transform(line)

SpecIngest == InitIngest /\ [][NextIngest]_vars

\* C19: the Queries that entered the pipeline are, in order, one per written
\* line that does not start with '#' or '//', and the input of each is that
\* line, unmodified; lines starting with '#' or '//' made none.  A line starts
\* with '#' when its first byte is 35 and with '//' when its first two are 47.
C19_Ingest ==
  LET kept == SelectSeq(lines, LAMBDA line :
                ~ \/ (Len(line) >= 1 /\ line[1] = 35)
                  \/ (Len(line) >= 2 /\ line[1] = 47 /\ line[2] = 47)) IN
    /\ Len(ingested) = Len(kept)
    /\ \A i \in 1..Len(ingested) : encodeText(ingested[i].input) = kept[i]

\* Three lines were written: a '#' comment, a '//' comment and an address
\* with a three-byte character that holds "//" further on; one Query entered.
C19_Witness ==
  /\ Len(lines) = 3
  /\ \E i, j, k \in 1..3 :
       /\ lines[i] = encodeText(<<"#", "a">>)
       /\ lines[j] = encodeText(<<"/", "/", "a_hira">>)
       /\ lines[k] = encodeText(<<"a_hira", "/", "/">>)
  /\ Len(ingested) = 1
\* ---- JsonTransform
BLANK_CHAR == "BLANK_CHAR"
BREAK_AT_EOF == "BREAK_AT_EOF"

\* The geocoded records that reach the formatter: one that matched nothing
\* and two that have a prefecture.
Formatted ==
  { [input |-> "address-1", pref |-> Null, pref_key |-> Null],
    [input |-> "address-2", pref |-> "Tokyo", pref_key |-> "tokyo"],
    [input |-> "address-3", pref |-> "Osaka", pref_key |-> "osaka"] }

\* The object _transform builds for a record: query.input, result.pref, and
\* debug.pref_key when options.debug is set.
Output(result, dbg) ==
  [input |-> result.input,
   pref |-> IF result.pref = Null THEN BLANK_CHAR ELSE result.pref,
   debug |-> IF dbg THEN <<"debug", result.pref_key>> ELSE <<>>]

\* JSON.stringify(output): the text of one object, as tokens.
stringify(output) ==
  <<"{", output.input, output.pref>> \o output.debug \o <<"}">>

InitJson ==
  /\ debug \in BOOLEAN
  /\ buffer = <<>>
  /\ lineNum = 0
  /\ written = <<>>
  /\ emitted = <<>>
  /\ ended = FALSE
  /\ flowing = TRUE
  /\ readableBuffer = <<>>
  /\ observed = <<>>
  /\ DownloadUnused
  /\ ActionUnused
  /\ CsvUnused
  /\ Tokyo23Unused
  /\ IngestUnused

\* JsonTransform._transform(result, _, callback): callback(null, out) pushes
\* out, and a push of the empty string adds no chunk.  A pushed chunk goes to
\* the 'data' listener at once when the stream is flowing and its readable
\* buffer is empty, and into the readable buffer otherwise.
JsonTransform_transform(result) ==
  /\ ~ended
  /\ lineNum < MaxRecords
  /\ written' = Append(written, result)
  /\ LET out == buffer
         start == IF lineNum > 0 THEN <<",">> ELSE <<"[">>
     IN /\ buffer' = start \o stringify(Output(result, debug))
        /\ emitted' = IF out = <<>> THEN emitted ELSE Append(emitted, out)
        /\ IF out = <<>>
             THEN UNCHANGED <<readableBuffer, observed>>
           ELSE IF flowing /\ readableBuffer = <<>>
             THEN observed' = Append(observed, out) /\ UNCHANGED readableBuffer
           ELSE readableBuffer' = Append(readableBuffer, out) /\ UNCHANGED observed
  /\ lineNum' = lineNum + 1
  /\ UNCHANGED <<debug, ended, flowing>>
  /\ UNCHANGED exceptJson

\* JsonTransform._final(callback): this.emit('data', ...) calls the 'data'
\* listener directly, whatever the readable buffer holds.
JsonTransform_final ==
  /\ ~ended
  /\ emitted' = emitted \o <<buffer, <<"]">>, <<BREAK_AT_EOF>>>>
  /\ observed' = observed \o <<buffer, <<"]">>, <<BREAK_AT_EOF>>>>
  /\ ended' = TRUE
  /\ UNCHANGED <<debug, buffer, lineNum, written, flowing, readableBuffer>>
  /\ UNCHANGED exceptJson

\* The consumer pauses the stream (pause(), or a pipe destination whose
\* write returned false).
consumerPauses ==
  /\ flowing
  /\ flowing' = FALSE
  /\ UNCHANGED <<debug, buffer, lineNum, written, emitted, ended,
                 readableBuffer, observed>>
  /\ UNCHANGED exceptJson

\* The consumer resumes the stream (resume(), or 'drain' of the destination).
consumerResumes ==
  /\ ~flowing
  /\ flowing' = TRUE
  /\ UNCHANGED <<debug, buffer, lineNum, written, emitted, ended,
                 readableBuffer, observed>>
  /\ UNCHANGED exceptJson

\* The flowing stream hands the oldest buffered chunk to the 'data' listener.
flow ==
  /\ flowing
  /\ readableBuffer # <<>>
  /\ observed' = Append(observed, Head(readableBuffer))
  /\ readableBuffer' = Tail(readableBuffer)
  /\ UNCHANGED <<debug, buffer, lineNum, written, emitted, ended, flowing>>
  /\ UNCHANGED exceptJson

NextJson ==
  \/ \E result \in Formatted : JsonTransform_transform(result)
  \/ JsonTransform_final
  \/ consumerPauses
  \/ consumerResumes
  \/ flow

SpecJson == InitJson /\ [][NextJson]_vars

\* The concatenation of the chunks from the n-th on.
RECURSIVE Concat(_, _)
Concat(chunks, n) ==
  IF n > Len(chunks) THEN <<>> ELSE chunks[n] \o Concat(chunks, n + 1)

\* The objects of the records from the n-th on, each after the first
\* preceded by one ','.
RECURSIVE Objects(_, _, _)
Objects(records, n, dbg) ==
  IF n > Len(records) THEN <<>>
  ELSE (IF n > 1 THEN <<",">> ELSE <<>>)
         \o stringify(Output(records[n], dbg))
         \o Objects(records, n + 1, dbg)

\* C20: after end of input, everything the transform emitted is, put
\* together, one '[', the objects of the written records in order with one
\* ',' between neighbours, one ']' and the end-of-file break; for no record
\* as well.
C20_JsonArray ==
  ended => Concat(emitted, 1)
             = <<"[">> \o Objects(written, 1, debug) \o <<"]", BREAK_AT_EOF>>
\* ---- CsvTransform
\* GeocodeResultFields
Field_INPUT == "input"
Field_LATITUDE == "lat"
Field_PREFECTURE == "prefecture"

\* Array.prototype.join: the elements from the n-th on with the separator
\* between neighbours.
RECURSIVE join(_, _, _)
join(array, separator, n) ==
  IF n > Len(array) THEN <<>>
  ELSE array[n] \o (IF n < Len(array) THEN <<separator>> ELSE <<>>)
                \o join(array, separator, n + 1)

\* The column sets a caller configures.
ColumnSets == { <<Field_INPUT>>, <<Field_INPUT, Field_LATITUDE, Field_PREFECTURE>> }

\* The geocoded records that reach the formatter.
GeocodeResults ==
  { [input |-> "address-1", lat |-> Null, prefecture |-> "undefined"],
    [input |-> "address-2", lat |-> "35.6", prefecture |-> "Tokyo"],
    [input |-> "address-3", lat |-> "34.7", prefecture |-> "Osaka"] }

\* options.columns.map(column => column.toString()).join(', ')
HeaderLine(cols) == join([i \in 1..Len(cols) |-> <<cols[i]>>], ", ", 1)

\* The cell of one column: the switch of _transform.
Cell(result, column) ==
  CASE column = Field_INPUT -> <<"\"", result.input, "\"">>
    [] column = Field_LATITUDE -> IF result.lat = Null THEN <<>> ELSE <<result.lat>>
    [] column = Field_PREFECTURE -> <<"\"", result.prefecture, "\"">>

\* const line = this.options.columns.map(...).join(', ')
DataLine(result, cols) ==
  join([i \in 1..Len(cols) |-> Cell(result, cols[i])], ", ", 1)

\* new CsvTransform({columns, skipHeader})
InitCsv ==
  /\ columns \in ColumnSets
  /\ skipHeader \in BOOLEAN
  /\ rows = IF skipHeader THEN <<>> ELSE <<HeaderLine(columns)>>
  /\ csvWritten = <<>>
  /\ csvEmitted = <<>>
  /\ csvEnded = FALSE
  /\ DownloadUnused
  /\ ActionUnused
  /\ Tokyo23Unused
  /\ IngestUnused
  /\ JsonUnused

\* CsvTransform._transform(result, encoding, callback)
CsvTransform_transform(result) ==
  /\ ~csvEnded
  /\ Len(csvWritten) < MaxRows
  /\ csvWritten' = Append(csvWritten, result)
  /\ LET pushedRows == rows \o <<DataLine(result, columns), <<>>>>
         csvLines == join(pushedRows, "\n", 1)
     IN csvEmitted' = Append(csvEmitted, csvLines)
  /\ rows' = <<>>
  /\ UNCHANGED <<columns, skipHeader, csvEnded>>
  /\ UNCHANGED exceptCsv

\* The upstream ends.  The class defines no _flush and no _final, so
\* Stream.Transform ends the readable side and hands on nothing more.
CsvTransform_end ==
  /\ ~csvEnded
  /\ csvEnded' = TRUE
  /\ UNCHANGED <<columns, skipHeader, rows, csvWritten, csvEmitted>>
  /\ UNCHANGED exceptCsv

NextCsv ==
  \/ \E result \in GeocodeResults : CsvTransform_transform(result)
  \/ CsvTransform_end

SpecCsv == InitCsv /\ [][NextCsv]_vars

\* The data rows of the records from the n-th on, each ended by a newline.
RECURSIVE DataRows(_, _, _)
DataRows(records, cols, n) ==
  IF n > Len(records) THEN <<>>
  ELSE DataLine(records[n], cols) \o <<"\n">> \o DataRows(records, cols, n + 1)

\* C21: when the input has ended, the output is the header line, once and
\* first, unless skipHeader is set, and then one data row per written record
\* in order; for no record as well.
C21_HeaderOnceAndRows ==
  csvEnded => Concat(csvEmitted, 1)
                = (IF skipHeader THEN <<>> ELSE HeaderLine(columns) \o <<"\n">>)
                    \o DataRows(csvWritten, columns, 1)
\* ---- downloadDataset (onDownloadAction) and geocodingAction: init and start
NoError == [error |-> "none"]

\* new Error('Must run init() or initForTest() before involving this function')
MustInitError == [error |-> "Error", message |-> "Must run init() or initForTest()"]

\* container.resolve of a token that was never registered
UnregisteredError == [error |-> "Error", message |-> "unregistered dependency token"]

\* new AbrgError({messageId: ERROR_NO_UPDATE_IS_AVAILABLE, level: INFO})
NoUpdateError ==
  [error |-> "AbrgError", messageId |-> "ERROR_NO_UPDATE_IS_AVAILABLE",
   level |-> "INFO"]

\* What an awaited step of start rejected with.
StepError == [error |-> "Error", message |-> "step rejected"]

\* The awaited steps of start and what a complete run of start does, in
\* order; db.close() is synchronous.
Awaited == {"updateCheck", "download", "extract", "load", "rm"}

Order ==
  << "updateCheck.begin", "updateCheck.end", "download.begin", "download.end",
     "extract.begin", "extract.end", "load.begin", "load.end", "db.close",
     "rm.begin", "rm.end" >>

\* The code that follows an awaited step, up to the next await or the return.
Proceed(at) ==
  CASE at = "updateCheck" ->
         [does |-> <<"updateCheck.end", "download.begin">>, pc |-> "download",
          rejection |-> NoError]
    [] at = "download" ->
         [does |-> <<"download.end", "extract.begin">>, pc |-> "extract",
          rejection |-> NoError]
    [] at = "extract" ->
         [does |-> <<"extract.end", "load.begin">>, pc |-> "load",
          rejection |-> NoError]
    [] at = "load" ->
         [does |-> <<"load.end", "db.close", "rm.begin">>, pc |-> "rm",
          rejection |-> NoError]
    [] at = "rm" ->
         [does |-> <<"rm.end">>, pc |-> "done", rejection |-> NoError]

\* A start that goes on to download whatever the update check reported.
Continue_ignoresUpdate(at, available) == Proceed(at)

\* After `await downloader.updateCheck()`: `if (!updateAvailable) return
\* Promise.reject(new AbrgError(...))`; after every other step the next one.
Continue(at, available) ==
  IF at = "updateCheck" /\ ~available
    THEN [does |-> <<"updateCheck.end">>, pc |-> "noUpdate",
          rejection |-> NoUpdateError]
    ELSE Proceed(at)

\* The container setup that downloadDataset.init began, if any.
OwnSetups == {i \in 1..Len(setups) : setups[i].by = "downloadDataset.init"}

SetupState ==
  IF OwnSetups = {} THEN "none" ELSE setups[CHOOSE i \in OwnSetups : TRUE].state

Registered == \E i \in OwnSetups : setups[i].registered

InitAction ==
  /\ ActionUnused
  /\ DownloadUnused
  /\ Tokyo23Unused
  /\ IngestUnused
  /\ JsonUnused
  /\ CsvUnused

\* One init function: the guard, the flag, then `await setupContainer(params)`.
InitCall(by, flag) ==
  /\ Len(setups) + alreadyInitialized < MaxInitCalls
  /\ IF flag
       THEN /\ alreadyInitialized' = alreadyInitialized + 1
            /\ setups' = setups
       ELSE /\ alreadyInitialized' = alreadyInitialized
            /\ setups' = Append(setups, [by |-> by, state |-> "pending",
                                          registered |-> FALSE])

\* downloadDataset.init(params)
downloadDataset_init ==
  /\ InitCall("downloadDataset.init", dsInitialized)
  /\ dsInitialized' = TRUE
  /\ UNCHANGED <<gaInitialized, startCalls, startPc, setupAtStart,
                 updateAvailable, steps, rejection>>
  /\ UNCHANGED exceptAction

\* geocodingAction.init(params) and geocodingAction.initForTest(params)
geocodingAction_init ==
  /\ \E by \in {"geocodingAction.init", "geocodingAction.initForTest"} :
       InitCall(by, gaInitialized)
  /\ gaInitialized' = TRUE
  /\ UNCHANGED <<dsInitialized, startCalls, startPc, setupAtStart,
                 updateAvailable, steps, rejection>>
  /\ UNCHANGED exceptAction

\* setupContainer registers what start resolves from the container.
setupRegisters ==
  /\ \E i \in 1..Len(setups) :
       /\ setups[i].state = "pending"
       /\ ~setups[i].registered
       /\ setups' = [setups EXCEPT ![i].registered = TRUE]
  /\ UNCHANGED <<dsInitialized, gaInitialized, alreadyInitialized, startCalls,
                 startPc, setupAtStart, updateAvailable, steps, rejection>>
  /\ UNCHANGED exceptAction

\* The promise of setupContainer settles: fulfilled once everything is
\* registered, rejected at any point.
setupSettles ==
  /\ \E i \in 1..Len(setups) :
       /\ setups[i].state = "pending"
       /\ \E outcome \in {"done", "failed"} :
            /\ outcome = "done" => setups[i].registered
            /\ setups' = [setups EXCEPT ![i].state = outcome]
  /\ UNCHANGED <<dsInitialized, gaInitialized, alreadyInitialized, startCalls,
                 startPc, setupAtStart, updateAvailable, steps, rejection>>
  /\ UNCHANGED exceptAction

\* downloadDataset.start({dataDir, ckanId}), up to its first awaited step:
\* the guard, the container.resolve calls, then downloader.updateCheck().
downloadDataset_start ==
  /\ startCalls < MaxStartCalls
  /\ startPc \notin Awaited
  /\ startCalls' = startCalls + 1
  /\ setupAtStart' = SetupState
  /\ updateAvailable' = "unknown"
  /\ IF ~dsInitialized
       THEN startPc' = "mustInit" /\ rejection' = MustInitError /\ steps' = <<>>
     ELSE IF ~Registered
       THEN startPc' = "unresolved" /\ rejection' = UnregisteredError
            /\ steps' = <<>>
     ELSE startPc' = "updateCheck" /\ rejection' = NoError
          /\ steps' = <<"updateCheck.begin">>
  /\ UNCHANGED <<dsInitialized, gaInitialized, setups, alreadyInitialized>>
  /\ UNCHANGED exceptAction

\* The awaited step of start is fulfilled and start runs on.
stepFulfilled ==
  /\ startPc \in Awaited
  /\ \E available \in (IF startPc = "updateCheck" THEN BOOLEAN ELSE {TRUE}) :
       /\ updateAvailable' =
            IF startPc = "updateCheck"
              THEN (IF available THEN "yes" ELSE "no") ELSE updateAvailable
       /\ LET next == Continue(startPc, available) IN
            /\ steps' = steps \o next.does
            /\ startPc' = next.pc
            /\ rejection' = next.rejection
  /\ UNCHANGED <<dsInitialized, gaInitialized, setups, alreadyInitialized,
                 startCalls, setupAtStart>>
  /\ UNCHANGED exceptAction

\* The awaited step of start is rejected: start rejects with its error.
stepRejected ==
  /\ startPc \in Awaited
  /\ startPc' = "failed"
  /\ rejection' = StepError
  /\ UNCHANGED <<dsInitialized, gaInitialized, setups, alreadyInitialized,
                 startCalls, setupAtStart, updateAvailable, steps>>
  /\ UNCHANGED exceptAction

NextAction ==
  \/ downloadDataset_init
  \/ geocodingAction_init
  \/ setupRegisters
  \/ setupSettles
  \/ downloadDataset_start
  \/ stepFulfilled
  \/ stepRejected

SpecAction == InitAction /\ [][NextAction]_vars

\* C22: what a start call has done is always an initial part of: update
\* check, download, extraction, load into the database, db.close, removal of
\* the temporary directory, each begun after the one before has completed;
\* and when the update check reported no update, start has rejected with the
\* INFO-level AbrgError ERROR_NO_UPDATE_IS_AVAILABLE and has done nothing but
\* the update check.
C22_StepsInOrder ==
  /\ \E k \in 0..Len(Order) : steps = SubSeq(Order, 1, k)
  /\ updateAvailable = "no" =>
       /\ steps = <<"updateCheck.begin", "updateCheck.end">>
       /\ startPc = "noUpdate"
       /\ rejection = NoUpdateError

\* A start call ran to its end after an update was reported.
C22_Witness ==
  /\ startPc = "done"
  /\ updateAvailable = "yes"
  /\ steps = Order
\* C23: each of the two namespaces starts container setup at most once, and
\* a start call that began when downloadDataset.init had not run, or when
\* its setupContainer had failed, threw and did nothing.
C23_InitGuard ==
  /\ Cardinality(OwnSetups) <= 1
  /\ Cardinality({i \in 1..Len(setups) : setups[i].by # "downloadDataset.init"}) <= 1
  /\ (startCalls > 0 /\ setupAtStart \in {"none", "failed"}) =>
       /\ steps = <<>>
       /\ rejection # NoError
       /\ startPc \in {"mustInit", "unresolved"}
\* C24: for the text of every record the stage has taken, normalizeCharNode
\* and normalizeStr give the same characters; and a processed record whose
\* text is the key of a dictionary row has a result made from that row.
C24_NormalizationsAgree ==
  /\ \A n \in 1..Len(queries) :
       normalizeCharNode(queries[n].tempAddress) = normalizeStr(queries[n].tempAddress)
  /\ tpc = "idle" =>
       \A n \in 1..Len(queries) : \A t \in 1..Len(tokyo23towns) :
         (/\ queries[n].match_level < CITY
          /\ queries[n].tempAddress = tokyo23towns[t].key) =>
           \E i \in 1..Len(results) :
             origin[i] = n /\ results[i].town_key = tokyo23towns[t].town_key
\* C25: the terminal sentinel, once pushed, is the last thing pushed: it is
\* pushed at most once and no record follows it.
C25_SentinelLast ==
  \A i \in 1..Len(pushed) : pushed[i] = EOS => i = Len(pushed)

\* The sentinel was pushed behind the records of two requests, one of which
\* had been retried, after the upstream's final.
C25_Witness ==
  /\ Len(pushed) = 3
  /\ pushed[3] = EOS
  /\ receivedFinal
  /\ \E r \in Requests : fails[r] > 0 /\ pc[r] = "done"
\* C26: what the 'data' listener has got is always an initial part of what
\* the transform has produced, in the order of production.
C26_DeliveredInOrder ==
  \E k \in 0..Len(emitted) : observed = SubSeq(emitted, 1, k)
====
